---- MODULE Spec2Model ----
(***************************************************************************)
(* VoiceChatManager of src/main.py: the registry of voice-chat sessions    *)
(* (active_calls), the playlist queues, the asyncio lock that guards the   *)
(* public operations, and the transport (PyTgCalls) they drive.            *)
(*                                                                         *)
(* Scheduling is asyncio's: one coroutine runs at a time and gives way     *)
(* only at an await.  Each action below is the code between two awaits.    *)
(* An operation that finds the lock taken waits in `async with` before it  *)
(* has done anything, which is the same as the operation being called      *)
(* after the lock is released, so an operation starts when the lock is     *)
(* free.  Handlers that take no lock run at any await of the lock holder.  *)
(***************************************************************************)
EXTENDS Integers, Sequences, FiniteSets, TLC

VARIABLES
    active_calls,     \* VoiceChatManager.active_calls: registry key -> session
    playlist_queues,  \* VoiceChatManager.playlist_queues: registry key -> items
    lock,             \* VoiceChatManager._lock is held
    cur,              \* the operation inside (or just out of) `async with self._lock`
    pending,          \* calls waiting in `async with self._lock`, made by handlers
                      \* that had already acted before they called
    joined,           \* the transport's state: the chats whose call it is in
    streaming,        \* the transport's state: the calls with a stream that has
                      \* not ended yet
    transport_call,   \* the transport call the operation is awaiting
    pytgcalls_clients,\* pytgcalls_clients: the phones with a started PyTgCalls
    shutdown,         \* where on_shutdown is, and the chat ids its loop has left
    temp_dir          \* tempfile.gettempdir(): the converted files in it

vars == <<active_calls, playlist_queues, lock, cur, pending, joined, streaming, transport_call,
         pytgcalls_clients, shutdown, temp_dir>>

---------------------------------------------------------------------------
\* Python values: a chat id is an int or a str (Union[int, str]).

PyInt(n) == [t |-> "int", n |-> n, s |-> ""]
PyStr(s) == [t |-> "str", n |-> 0, s |-> s]

\* The chats (entity.id) the account can see.
EntityIds == {1, 2}

\* str(n) and int(s) over the numbers in play.
Decimal == {<<1, "1">>, <<2, "2">>}

\* str(chat_id)
StrOf(v) ==
    IF v.t = "str" THEN v.s
    ELSE IF \E d \in Decimal : d[1] = v.n
         THEN (CHOOSE d \in Decimal : d[1] = v.n)[2]
         ELSE "0"

\* int(chat_id): ok = FALSE stands for ValueError.
IntOf(v) ==
    IF v.t = "int" THEN [ok |-> TRUE, n |-> v.n]
    ELSE IF \E d \in Decimal : d[2] = v.s
         THEN [ok |-> TRUE, n |-> (CHOOSE d \in Decimal : d[2] = v.s)[1]]
         ELSE [ok |-> FALSE, n |-> 0]

\* chat_id.lstrip('+') for a str, the value itself for an int.
LStripPlus(v) ==
    IF v.t = "str" /\ v.s = "+HashAlpha01" THEN PyStr("HashAlpha01") ELSE v

\* What extract_chat_id hands to join for one chat, per form of the input:
\* a numeric id becomes an int, "@name" and "t.me/name" become "@name", an
\* invite link or hash becomes the bare hash.
extract_chat_id(form, e) ==
    CASE form = "id" -> PyInt(e)
      [] form = "username" -> PyStr(IF e = 1 THEN "@alpha" ELSE "@gamma")
      [] form = "invite" -> PyStr(IF e = 1 THEN "HashAlpha01" ELSE "HashGamma02")

\* The entity the client resolves a chat id to (entity.id), 0 for none.
Resolve(v) ==
    IF IntOf(v).ok THEN (IF IntOf(v).n \in EntityIds THEN IntOf(v).n ELSE 0)
    ELSE CASE v.s \in {"@alpha", "HashAlpha01"} -> 1
           [] v.s \in {"@gamma", "HashGamma02"} -> 2
           [] OTHER -> 0

---------------------------------------------------------------------------
\* Maps with a growing and shrinking domain (Python dicts).

EmptyMap == [k \in {} |-> 0]
Put(f, k, v) == [x \in (DOMAIN f) \cup {k} |-> IF x = k THEN v ELSE f[x]]
Del(f, k) == [x \in (DOMAIN f) \ {k} |-> f[x]]

\* An absent dict key of a session ("file", "volume") is "" and 0.
NoFile == ""
SilenceStream == "silence.mp3"

\* The record join stores.  "pytgcalls" is the PyTgCalls instance that
\* initialize_pytgcalls returned, TRUE for an object Python takes as true.
NewSession(e) ==
    [entity_id |-> e, pytgcalls |-> TRUE, playing |-> FALSE, file |-> NoFile,
     volume |-> 0, current_stream |-> SilenceStream]

max_retries == 3
JoinTimeout == 30

NoCall == [fn |-> "none", chat |-> 0]
Call(fn, e) == [fn |-> fn, chat |-> e]

NoTask ==
    [op |-> "none", pc |-> "idle", chat_id |-> PyInt(0), key |-> "",
     attempt |-> 0, chat_id_int |-> 0, wait_for |-> 0, branch |-> "",
     file |-> NoFile, volume |-> 0, pytgcalls_volume |-> 0, stream |-> "",
     origin |-> "", ret |-> "none"]

\* The operation has returned r (or was cancelled): what the caller sees,
\* and the branch it returned from.  A play_media or stop_media awaited by
\* skip_current returns into it, and skip_current returns at once: True
\* after _handle_stream_end, whatever play_media returned, and stop_media's
\* own result otherwise.
Finished(task, r) ==
    [NoTask EXCEPT !.op = IF task.origin = "skip" THEN "skip" ELSE task.op,
                   !.pc = "done", !.chat_id = task.chat_id,
                   !.key = task.key, !.origin = task.origin, !.branch = task.branch,
                   !.ret = IF task.origin = "skip" /\ task.op = "play" THEN "true" ELSE r]

Idle == cur.op = "none" /\ ~lock /\ pending = <<>>

\* The account all calls are made with.
Phone == "phone"

\* The dispatcher polls: the bot's handlers call the operations.  main()
\* runs on_shutdown after start_polling has returned.
NotShutDown == [pc |-> "polling", todo |-> <<>>]
Serving == shutdown.pc = "polling"

Init ==
    /\ active_calls = EmptyMap
    /\ playlist_queues = EmptyMap
    /\ lock = FALSE
    /\ cur = NoTask
    /\ pending = <<>>
    /\ joined = {}
    /\ streaming = {}
    /\ transport_call = NoCall
    /\ pytgcalls_clients = {}
    /\ shutdown = NotShutDown
    /\ temp_dir = {}

\* The caller takes the result; the next operation may start.
Return ==
    /\ cur.pc = "done"
    /\ cur' = NoTask
    /\ UNCHANGED <<active_calls, playlist_queues, lock, pending, joined, streaming, transport_call>>
    /\ UNCHANGED <<shutdown, pytgcalls_clients, temp_dir>>

---------------------------------------------------------------------------
\* _cleanup_call(chat_id_str): no await inside, so it runs in one piece.

CleanupCalls(key) == IF key \in DOMAIN active_calls THEN Del(active_calls, key) ELSE active_calls
CleanupQueues(key) == IF key \in DOMAIN playlist_queues THEN Del(playlist_queues, key) ELSE playlist_queues

---------------------------------------------------------------------------
\* join_voice_chat

\* `async with self._lock`, the normalisation and the already-in-call check.
JoinKey(chat_id) == StrOf(LStripPlus(chat_id))

\* J_enter without the already-in-call check.
J_enter_unchecked(chat_id) ==
    /\ Serving
    /\ Idle
    /\ cur' = [NoTask EXCEPT !.op = "join", !.chat_id = LStripPlus(chat_id),
                             !.key = JoinKey(chat_id), !.pc = "j_resolve"]
    /\ lock' = TRUE
    /\ UNCHANGED <<active_calls, playlist_queues, pending, joined, streaming, transport_call>>
    /\ UNCHANGED <<shutdown, pytgcalls_clients, temp_dir>>

J_enter(chat_id) ==
    /\ Serving
    /\ Idle
    /\ LET key == JoinKey(chat_id)
           t == [NoTask EXCEPT !.op = "join", !.chat_id = LStripPlus(chat_id), !.key = key]
       IN IF key \in DOMAIN active_calls
          THEN /\ cur' = Finished([t EXCEPT !.branch = "already in voice chat"], "true")
               /\ UNCHANGED lock
          ELSE /\ cur' = [t EXCEPT !.pc = "j_resolve"]
               /\ lock' = TRUE
    /\ UNCHANGED <<active_calls, playlist_queues, pending, joined, streaming, transport_call>>
    /\ UNCHANGED <<shutdown, pytgcalls_clients, temp_dir>>

\* The join attempt of the retry loop: join_group_call under wait_for(30).
JoinAttempt(t, n) ==
    /\ cur' = [t EXCEPT !.pc = "j_join_wait", !.attempt = n, !.wait_for = JoinTimeout]
    /\ transport_call' = Call("join_group_call", t.chat_id_int)

JoinFails ==
    /\ cur' = Finished(cur, "false")
    /\ lock' = FALSE
    /\ transport_call' = NoCall

\* initialize_pytgcalls, entity resolution, the broadcast check, the voice
\* chat check and the silence file check; then the first join attempt.
J_resolve(outcome) ==
    /\ cur.pc = "j_resolve"
    /\ IF outcome = "ok" /\ Resolve(cur.chat_id) # 0
       THEN /\ JoinAttempt([cur EXCEPT !.chat_id_int = Resolve(cur.chat_id)], 0)
            /\ UNCHANGED lock
       ELSE JoinFails
    /\ UNCHANGED <<active_calls, playlist_queues, pending, joined, streaming>>
    /\ pytgcalls_clients' = IF outcome = "init error" THEN pytgcalls_clients ELSE pytgcalls_clients \cup {Phone}
    /\ UNCHANGED <<shutdown, temp_dir>>

\* (Not the code: Register leaving a queue the key already has as it is.)
Register_keeps_queue(key, e) ==
    /\ active_calls' = Put(active_calls, key, NewSession(e))
    /\ playlist_queues' = IF key \in DOMAIN playlist_queues
                          THEN playlist_queues
                          ELSE Put(playlist_queues, key, <<>>)

\* The session and the empty queue a successful join records.
Register(key, e) ==
    /\ active_calls' = Put(active_calls, key, NewSession(e))
    /\ playlist_queues' = Put(playlist_queues, key, <<>>)

\* An attempt failed: sleep and retry, or give up after max_retries.
RetryOrFail ==
    IF cur.attempt < max_retries - 1
    THEN /\ cur' = [cur EXCEPT !.pc = "j_sleep", !.wait_for = 0]
         /\ transport_call' = NoCall
         /\ UNCHANGED lock
    ELSE JoinFails

\* What the awaited join_group_call of the retry loop ends in.
J_join_result(outcome, can_create) ==
    /\ cur.pc = "j_join_wait"
    /\ \/ /\ outcome = "ok"
          /\ cur.chat_id_int \notin joined
          /\ joined' = joined \cup {cur.chat_id_int}
          /\ streaming' = streaming \cup {cur.chat_id_int}
          /\ cur' = [cur EXCEPT !.pc = "j_get_me", !.branch = "try", !.wait_for = 0]
          /\ transport_call' = NoCall
          /\ UNCHANGED lock
       \/ /\ outcome = "already joined"
          /\ cur.chat_id_int \in joined
          /\ cur' = [cur EXCEPT !.pc = "j_get_me", !.branch = "except", !.wait_for = 0]
          /\ transport_call' = NoCall
          /\ UNCHANGED <<lock, joined, streaming>>
       \/ /\ outcome = "NoActiveGroupCall"
          /\ IF cur.attempt = max_retries - 1 /\ can_create
             THEN /\ cur' = [cur EXCEPT !.pc = "j_create", !.wait_for = 0]
                  /\ transport_call' = NoCall
                  /\ UNCHANGED lock
             ELSE RetryOrFail
          /\ UNCHANGED <<joined, streaming>>
       \/ /\ outcome \in {"GroupCallNotFound", "TimeoutError", "Exception"}
          /\ outcome = "TimeoutError" => cur.wait_for > 0
          /\ RetryOrFail
          /\ UNCHANGED <<joined, streaming>>
    /\ UNCHANGED <<active_calls, playlist_queues, pending>>
    /\ UNCHANGED <<shutdown, pytgcalls_clients, temp_dir>>

\* asyncio.sleep(retry_delay), then the next attempt.
J_sleep ==
    /\ cur.pc = "j_sleep"
    /\ JoinAttempt(cur, cur.attempt + 1)
    /\ UNCHANGED <<active_calls, playlist_queues, lock, pending, joined, streaming>>
    /\ UNCHANGED <<shutdown, pytgcalls_clients, temp_dir>>

\* The last resort: CreateGroupCallRequest, sleep, and one more
\* join_group_call, this one awaited bare.
J_create(ok) ==
    /\ cur.pc = "j_create"
    /\ IF ok
       THEN /\ cur' = [cur EXCEPT !.pc = "j_join_extra", !.wait_for = 0]
            /\ transport_call' = Call("join_group_call", cur.chat_id_int)
            /\ UNCHANGED lock
       ELSE JoinFails
    /\ UNCHANGED <<active_calls, playlist_queues, pending, joined, streaming>>
    /\ UNCHANGED <<shutdown, pytgcalls_clients, temp_dir>>

J_join_extra_result(ok) ==
    /\ cur.pc = "j_join_extra"
    /\ IF ok
       THEN /\ cur.chat_id_int \notin joined
            /\ joined' = joined \cup {cur.chat_id_int}
            /\ streaming' = streaming \cup {cur.chat_id_int}
            /\ cur' = [cur EXCEPT !.pc = "j_get_me", !.branch = "extra"]
            /\ transport_call' = NoCall
            /\ UNCHANGED lock
       ELSE /\ JoinFails
            /\ UNCHANGED <<joined, streaming>>
    /\ UNCHANGED <<active_calls, playlist_queues, pending>>
    /\ UNCHANGED <<shutdown, pytgcalls_clients, temp_dir>>

\* client.get_me(), then the session is recorded.  A get_me that raises is
\* caught by the handler around it: in the try of the loop it counts as a
\* failed attempt, in the "already joined" handler it falls to the outer
\* except, in the last resort it falls through to return False.
\* J_get_me recording the session before get_me has answered.
J_get_me_records_first(ok) ==
    /\ cur.pc = "j_get_me"
    /\ Register(cur.key, cur.chat_id_int)
    /\ IF ok
       THEN /\ cur' = Finished(cur, "true")
            /\ lock' = FALSE
            /\ UNCHANGED transport_call
       ELSE IF cur.branch = "try" THEN RetryOrFail ELSE JoinFails
    /\ UNCHANGED <<pending, joined, streaming>>
    /\ UNCHANGED <<shutdown, pytgcalls_clients, temp_dir>>

J_get_me(ok) ==
    /\ cur.pc = "j_get_me"
    /\ IF ok
       THEN /\ Register(cur.key, cur.chat_id_int)
            /\ cur' = Finished(cur, "true")
            /\ lock' = FALSE
            /\ UNCHANGED transport_call
       ELSE /\ IF cur.branch = "try" THEN RetryOrFail ELSE JoinFails
            /\ UNCHANGED <<active_calls, playlist_queues>>
    /\ UNCHANGED <<pending, joined, streaming>>
    /\ UNCHANGED <<shutdown, pytgcalls_clients, temp_dir>>

\* callback_voice_join_account awaits the join under wait_for(60): when it
\* expires the join is cancelled at the await it is suspended in, and
\* `async with` releases the lock as CancelledError passes through.
J_cancel ==
    /\ cur.op = "join"
    /\ cur.pc \in {"j_resolve", "j_join_wait", "j_sleep", "j_create", "j_join_extra", "j_get_me"}
    /\ cur' = Finished(cur, "cancelled")
    /\ lock' = FALSE
    /\ transport_call' = NoCall
    /\ UNCHANGED <<active_calls, playlist_queues, pending, joined, streaming>>
    /\ UNCHANGED <<shutdown, pytgcalls_clients, temp_dir>>

---------------------------------------------------------------------------
\* The operations on an existing session: leave, stop, pause, resume,
\* set_volume and play share their opening lines.

\* call_info.get("entity_id", int(chat_id)): Python evaluates the default
\* before the call, so int(chat_id) runs (and may raise ValueError) although
\* the session always has an entity_id.
EntityIdOf(call_info, chat_id) ==
    [ok |-> IntOf(chat_id).ok, n |-> call_info.entity_id]

\* (Not the code: an operation that returns without releasing the lock.)
Leaves_keeps_lock(task, r) ==
    /\ cur' = Finished(task, r)
    /\ lock' = lock
    /\ transport_call' = NoCall

\* Leaves the critical section with r.  The branch of an operation whose
\* transport call raised is "except", the handler that logs and returns False.
Leaves(task, r) ==
    /\ cur' = Finished(task, r)
    /\ lock' = FALSE
    /\ transport_call' = NoCall

\* Enter without the not-in-call check: the transport is called with
\* int(chat_id).
Enter_unchecked(task, fn, pc) ==
    LET t == [task EXCEPT !.key = StrOf(task.chat_id)]
    IN IF ~IntOf(t.chat_id).ok
       THEN Leaves(t, "false")
       ELSE /\ cur' = [t EXCEPT !.pc = pc, !.chat_id_int = IntOf(t.chat_id).n]
            /\ lock' = TRUE
            /\ transport_call' = Call(fn, IntOf(t.chat_id).n)

\* What an operation returns when the session's "pytgcalls" is not true:
\* play_media and stop_media return False; pause_media, resume_media and
\* set_volume have no else to their `if pytgcalls:` and run off the end of
\* the function, which returns None.
WithoutPyTgCalls(op) == IF op \in {"pause", "resume", "set_volume"} THEN "none" ELSE "false"

\* `async with self._lock`, the not-in-call check, the entity id, and the
\* transport call fn the operation then awaits at pc.
Enter(task, fn, pc) ==
    LET key == StrOf(task.chat_id)
        t == [task EXCEPT !.key = key]
    IN IF key \notin DOMAIN active_calls
       THEN Leaves(t, "false")
       ELSE LET eid == EntityIdOf(active_calls[key], t.chat_id)
            IN IF ~eid.ok
               THEN Leaves(t, "false")
               ELSE IF ~active_calls[key].pytgcalls
               THEN Leaves(t, WithoutPyTgCalls(t.op))
               ELSE /\ cur' = [t EXCEPT !.pc = pc, !.chat_id_int = eid.n]
                    /\ lock' = TRUE
                    /\ transport_call' = Call(fn, eid.n)

Request(op, chat_id, origin) ==
    [NoTask EXCEPT !.op = op, !.chat_id = chat_id, !.origin = origin]

\* self.active_calls[chat_id_str].update(...) after the await: KeyError when
\* the session was removed meanwhile, caught by the except around it.
Commit(session) ==
    IF cur.key \in DOMAIN active_calls
    THEN /\ active_calls' = Put(active_calls, cur.key, session)
         /\ Leaves(cur, "true")
    ELSE /\ UNCHANGED active_calls
         /\ Leaves(cur, "false")

---------------------------------------------------------------------------
\* leave_voice_chat

\* Without a true "pytgcalls" leave makes no transport call and goes
\* straight to _cleanup_call.
LeaveEnter(chat_id, origin) ==
    LET key == StrOf(chat_id)
        t == [Request("leave", chat_id, origin) EXCEPT !.key = key]
    IN IF /\ key \in DOMAIN active_calls
          /\ EntityIdOf(active_calls[key], chat_id).ok
          /\ ~active_calls[key].pytgcalls
       THEN /\ active_calls' = CleanupCalls(key)
            /\ playlist_queues' = CleanupQueues(key)
            /\ Leaves(t, "true")
       ELSE /\ Enter(t, "leave_group_call", "l_wait")
            /\ UNCHANGED <<active_calls, playlist_queues>>

L_enter(chat_id) ==
    /\ Serving
    /\ Idle
    /\ LeaveEnter(chat_id, "leave")
    /\ UNCHANGED <<pending, joined, streaming>>
    /\ UNCHANGED <<shutdown, pytgcalls_clients, temp_dir>>

\* leave_group_call returned or raised (NotInGroupCallError, anything else):
\* all three go on to _cleanup_call and return True.
L_result(outcome) ==
    /\ cur.pc = "l_wait"
    /\ CASE outcome = "ok" ->
              /\ cur.chat_id_int \in joined
              /\ joined' = joined \ {cur.chat_id_int}
              /\ streaming' = streaming \ {cur.chat_id_int}
         [] outcome = "NotInGroupCallError" ->
              /\ cur.chat_id_int \notin joined
              /\ UNCHANGED <<joined, streaming>>
         [] OTHER -> UNCHANGED <<joined, streaming>>
    /\ active_calls' = CleanupCalls(cur.key)
    /\ playlist_queues' = CleanupQueues(cur.key)
    /\ Leaves(cur, "true")
    /\ UNCHANGED pending
    /\ UNCHANGED <<shutdown, pytgcalls_clients, temp_dir>>

---------------------------------------------------------------------------
\* play_media (the audio branch)

\* convert_audio_for_playback: the converted copy, or the input itself when
\* ffmpeg fails.  subprocess.run blocks; there is no await in it.
ConvertedPath(file) == IF file = "a.mp3" THEN "a_vcbot_36k64k.mp3" ELSE "b_vcbot_36k64k.mp3"
convert_audio_for_playback(file, ffmpeg_ok) == IF ffmpeg_ok THEN ConvertedPath(file) ELSE file

\* From `async with self._lock` to the awaited change_stream.  The
\* converter runs once the checks are passed, and its output stays where
\* ffmpeg wrote it.
PlayEnter(task, exists, ffmpeg_ok) ==
    IF ~exists
    THEN /\ Leaves([task EXCEPT !.key = StrOf(task.chat_id)], "false")
         /\ UNCHANGED temp_dir
    ELSE /\ Enter([task EXCEPT !.stream = convert_audio_for_playback(task.file, ffmpeg_ok)],
                  "change_stream", "pl_wait")
         /\ temp_dir' = IF cur'.pc = "pl_wait" /\ ffmpeg_ok
                         THEN temp_dir \cup {ConvertedPath(task.file)}
                         ELSE temp_dir

PlayRequest(chat_id, file, volume, origin) ==
    [Request("play", chat_id, origin) EXCEPT !.file = file, !.volume = volume]

Pl_enter(chat_id, file, volume, exists, ffmpeg_ok) ==
    /\ Serving
    /\ Idle
    /\ PlayEnter(PlayRequest(chat_id, file, volume, "play"), exists, ffmpeg_ok)
    /\ UNCHANGED <<active_calls, playlist_queues, pending, joined, streaming>>
    /\ UNCHANGED <<shutdown, pytgcalls_clients>>

\* The transport does what it is asked only for a call it is in.
TransportAccepts(ok) == ok /\ cur.chat_id_int \in joined

\* change_stream accepted: the call has a stream that is yet to end.
StreamChanged(ok) ==
    streaming' = IF TransportAccepts(ok) THEN streaming \cup {cur.chat_id_int} ELSE streaming

\* (Not the code: the update made and True returned whatever change_stream
\* did.)
Pl_result_whatever_the_transport(ok) ==
    /\ cur.pc = "pl_wait"
    /\ Commit([active_calls[cur.key] EXCEPT !.playing = TRUE, !.file = cur.file,
                   !.volume = cur.volume, !.current_stream = cur.stream])
    /\ StreamChanged(ok)
    /\ UNCHANGED <<playlist_queues, pending, joined>>
    /\ UNCHANGED <<shutdown, pytgcalls_clients, temp_dir>>

Pl_result(ok) ==
    /\ cur.pc = "pl_wait"
    /\ IF TransportAccepts(ok)
       THEN Commit([active_calls[cur.key] EXCEPT !.playing = TRUE, !.file = cur.file,
                        !.volume = cur.volume, !.current_stream = cur.stream])
       ELSE /\ Leaves([cur EXCEPT !.branch = "except"], "false")
            /\ UNCHANGED active_calls
    /\ StreamChanged(ok)
    /\ UNCHANGED <<playlist_queues, pending, joined>>
    /\ UNCHANGED <<shutdown, pytgcalls_clients, temp_dir>>

---------------------------------------------------------------------------
\* stop_media

S_enter(chat_id) ==
    /\ Serving
    /\ Idle
    /\ Enter(Request("stop", chat_id, "stop"), "change_stream", "s_wait")
    /\ UNCHANGED <<active_calls, playlist_queues, pending, joined, streaming>>
    /\ UNCHANGED <<shutdown, pytgcalls_clients, temp_dir>>

\* S_result without the clearing of the queue.
S_result_keeps_queue(ok) ==
    /\ cur.pc = "s_wait"
    /\ IF TransportAccepts(ok)
       THEN /\ Commit([active_calls[cur.key] EXCEPT !.playing = FALSE, !.file = NoFile,
                           !.current_stream = SilenceStream])
            /\ UNCHANGED playlist_queues
       ELSE /\ Leaves([cur EXCEPT !.branch = "except"], "false")
            /\ UNCHANGED <<active_calls, playlist_queues>>
    /\ StreamChanged(ok)
    /\ UNCHANGED <<pending, joined>>
    /\ UNCHANGED <<shutdown, pytgcalls_clients, temp_dir>>

S_result(ok) ==
    /\ cur.pc = "s_wait"
    /\ IF TransportAccepts(ok)
       THEN /\ Commit([active_calls[cur.key] EXCEPT !.playing = FALSE, !.file = NoFile,
                           !.current_stream = SilenceStream])
            /\ playlist_queues' =
                 IF cur.key \in DOMAIN active_calls /\ cur.key \in DOMAIN playlist_queues
                 THEN Put(playlist_queues, cur.key, <<>>)
                 ELSE playlist_queues
       ELSE /\ Leaves([cur EXCEPT !.branch = "except"], "false")
            /\ UNCHANGED <<active_calls, playlist_queues>>
    /\ StreamChanged(ok)
    /\ UNCHANGED <<pending, joined>>
    /\ UNCHANGED <<shutdown, pytgcalls_clients, temp_dir>>

---------------------------------------------------------------------------
\* pause_media and resume_media

Pa_enter(chat_id) ==
    /\ Serving
    /\ Idle
    /\ Enter(Request("pause", chat_id, "pause"), "pause_stream", "pa_wait")
    /\ UNCHANGED <<active_calls, playlist_queues, pending, joined, streaming>>
    /\ UNCHANGED <<shutdown, pytgcalls_clients, temp_dir>>

\* (Not the code: playing set to False before pause_stream has answered.)
Pa_result_records_first(ok) ==
    /\ cur.pc = "pa_wait"
    /\ IF TransportAccepts(ok)
       THEN Commit([active_calls[cur.key] EXCEPT !.playing = FALSE])
       ELSE /\ Leaves([cur EXCEPT !.branch = "except"], "false")
            /\ active_calls' = IF cur.key \in DOMAIN active_calls
                               THEN Put(active_calls, cur.key,
                                        [active_calls[cur.key] EXCEPT !.playing = FALSE])
                               ELSE active_calls
    /\ UNCHANGED <<playlist_queues, pending, joined, streaming>>
    /\ UNCHANGED <<shutdown, pytgcalls_clients, temp_dir>>

Pa_result(ok) ==
    /\ cur.pc = "pa_wait"
    /\ IF TransportAccepts(ok)
       THEN Commit([active_calls[cur.key] EXCEPT !.playing = FALSE])
       ELSE /\ Leaves([cur EXCEPT !.branch = "except"], "false")
            /\ UNCHANGED active_calls
    /\ UNCHANGED <<playlist_queues, pending, joined, streaming>>
    /\ UNCHANGED <<shutdown, pytgcalls_clients, temp_dir>>

R_enter(chat_id) ==
    /\ Serving
    /\ Idle
    /\ Enter(Request("resume", chat_id, "resume"), "resume_stream", "r_wait")
    /\ UNCHANGED <<active_calls, playlist_queues, pending, joined, streaming>>
    /\ UNCHANGED <<shutdown, pytgcalls_clients, temp_dir>>

R_result(ok) ==
    /\ cur.pc = "r_wait"
    /\ IF TransportAccepts(ok)
       THEN Commit([active_calls[cur.key] EXCEPT !.playing = TRUE])
       ELSE /\ Leaves([cur EXCEPT !.branch = "except"], "false")
            /\ UNCHANGED active_calls
    /\ UNCHANGED <<playlist_queues, pending, joined, streaming>>
    /\ UNCHANGED <<shutdown, pytgcalls_clients, temp_dir>>

---------------------------------------------------------------------------
\* set_volume

\* pytgcalls_volume = min(200, max(0, volume))
Min(a, b) == IF a < b THEN a ELSE b
Max(a, b) == IF a > b THEN a ELSE b
\* (Not the code: a volume above 200 wraps around instead of stopping at 200.)
PyTgCallsVolume_wrapped(volume) == IF volume > 200 THEN volume - 200 ELSE Max(0, volume)
PyTgCallsVolume(volume) == Min(200, Max(0, volume))

V_enter(chat_id, volume) ==
    /\ Serving
    /\ Idle
    /\ Enter([Request("set_volume", chat_id, "set_volume")
                 EXCEPT !.volume = volume, !.pytgcalls_volume = PyTgCallsVolume(volume)],
             "change_volume_call", "v_wait")
    /\ UNCHANGED <<active_calls, playlist_queues, pending, joined, streaming>>
    /\ UNCHANGED <<shutdown, pytgcalls_clients, temp_dir>>

\* The value stored is the one asked for, not the one applied.
V_result(ok) ==
    /\ cur.pc = "v_wait"
    /\ IF TransportAccepts(ok)
       THEN Commit([active_calls[cur.key] EXCEPT !.volume = cur.volume])
       ELSE /\ Leaves([cur EXCEPT !.branch = "except"], "false")
            /\ UNCHANGED active_calls
    /\ UNCHANGED <<playlist_queues, pending, joined, streaming>>
    /\ UNCHANGED <<shutdown, pytgcalls_clients, temp_dir>>

---------------------------------------------------------------------------
\* The handlers that take no lock.

MaxQueue == 2
MaxPending == 1

QueueItem(file, volume) == [file |-> file, volume |-> volume]

\* An operation that takes no lock returns r without having awaited
\* anything.  It may run while the lock holder is suspended; its result is
\* kept for the caller when no other operation's is.
ReturnsAtOnce(task, r) ==
    IF cur.op = "none" THEN cur' = Finished(task, r) ELSE UNCHANGED cur

\* add_to_queue
add_to_queue(chat_id, file, volume, exists) ==
    LET key == StrOf(chat_id)
        q == IF key \in DOMAIN playlist_queues THEN playlist_queues[key] ELSE <<>>
        t == [Request("enqueue", chat_id, "enqueue") EXCEPT !.key = key]
    IN /\ IF exists
          THEN /\ Len(q) < MaxQueue
               /\ playlist_queues' = Put(playlist_queues, key, Append(q, QueueItem(file, volume)))
               /\ ReturnsAtOnce(t, "true")
          ELSE /\ UNCHANGED playlist_queues
               /\ ReturnsAtOnce(t, "false")
       /\ UNCHANGED <<active_calls, lock, pending, joined, streaming, transport_call>>
       /\ Serving
       /\ UNCHANGED <<shutdown, pytgcalls_clients, temp_dir>>

\* on_kicked and on_closed_voice_chat: _cleanup_call(str(chat_id)) with the
\* transport's id of the call.
EventKey(e) == StrOf(PyInt(e))

on_kicked(e) ==
    /\ e \in joined
    /\ joined' = joined \ {e}
    /\ streaming' = streaming \ {e}
    /\ active_calls' = CleanupCalls(EventKey(e))
    /\ playlist_queues' = CleanupQueues(EventKey(e))
    /\ UNCHANGED <<lock, cur, pending, transport_call>>
    /\ UNCHANGED <<shutdown, pytgcalls_clients, temp_dir>>

on_closed(e) ==
    /\ e \in joined
    /\ joined' = joined \ {e}
    /\ streaming' = streaming \ {e}
    /\ active_calls' = CleanupCalls(EventKey(e))
    /\ playlist_queues' = CleanupQueues(EventKey(e))
    /\ UNCHANGED <<lock, cur, pending, transport_call>>
    /\ UNCHANGED <<shutdown, pytgcalls_clients, temp_dir>>

\* play_media called by a handler: it runs on at once when the lock is free
\* and nobody waits for it, and waits otherwise.
CallPlay(task, exists, ffmpeg_ok) ==
    IF Idle
    THEN /\ PlayEnter(task, exists, ffmpeg_ok)
         /\ UNCHANGED pending
    ELSE /\ Len(pending) < MaxPending
         /\ pending' = Append(pending, task)
         /\ UNCHANGED <<lock, cur, transport_call, temp_dir>>

\* _handle_stream_end(chat_id, phone) up to its await, or to its end when
\* the queue is empty; origin is who called it.
handle_stream_end(e, origin, exists, ffmpeg_ok) ==
    LET key == EventKey(e)
    IN IF key \in DOMAIN playlist_queues /\ playlist_queues[key] # <<>>
       THEN LET next_item == Head(playlist_queues[key])
            IN /\ playlist_queues' = Put(playlist_queues, key, Tail(playlist_queues[key]))
               /\ CallPlay(PlayRequest(PyInt(e), next_item.file, next_item.volume, origin),
                           exists, ffmpeg_ok)
               /\ UNCHANGED active_calls
       ELSE /\ active_calls' =
                 IF key \in DOMAIN active_calls
                 THEN Put(active_calls, key, [active_calls[key] EXCEPT !.playing = FALSE])
                 ELSE active_calls
            /\ UNCHANGED <<playlist_queues, lock, cur, pending, transport_call, temp_dir>>

\* on_stream_end: the stream of a call has ended (the silence join streams
\* ends like any other); _handle_stream_end(update.chat_id, phone).
on_stream_end(e, exists, ffmpeg_ok) ==
    /\ e \in streaming
    /\ streaming' = streaming \ {e}
    /\ handle_stream_end(e, "stream_end", exists, ffmpeg_ok)
    /\ UNCHANGED joined
    /\ UNCHANGED <<shutdown, pytgcalls_clients>>

\* stop_media called by skip_current.
CallStop(task) ==
    IF Idle
    THEN /\ Enter(task, "change_stream", "s_wait")
         /\ UNCHANGED pending
    ELSE /\ Len(pending) < MaxPending
         /\ pending' = Append(pending, task)
         /\ UNCHANGED <<lock, cur, transport_call>>

\* skip_current.  With items queued it calls
\* _handle_stream_end(int(chat_id), self.active_calls[chat_id_str].get(...)):
\* the arguments are evaluated first, int(chat_id) raising ValueError and the
\* subscript KeyError, both caught by the except that returns False.
\* Without items it returns what stop_media returns.
\* skip_current without its try: the ValueError and the KeyError reach the
\* caller.
skip_current_uncaught(chat_id, exists, ffmpeg_ok) ==
    LET key == StrOf(chat_id)
        t == [Request("skip", chat_id, "skip") EXCEPT !.key = key]
    IN /\ IF key \in DOMAIN playlist_queues /\ playlist_queues[key] # <<>>
          THEN IF ~IntOf(chat_id).ok \/ key \notin DOMAIN active_calls
               THEN /\ ReturnsAtOnce(t, "raised")
                    /\ UNCHANGED <<active_calls, playlist_queues, lock, pending, transport_call, temp_dir>>
               ELSE handle_stream_end(IntOf(chat_id).n, "skip", exists, ffmpeg_ok)
          ELSE /\ CallStop(Request("stop", chat_id, "skip"))
               /\ UNCHANGED <<active_calls, playlist_queues, temp_dir>>
       /\ UNCHANGED <<joined, streaming>>
       /\ Serving
       /\ UNCHANGED <<shutdown, pytgcalls_clients>>

skip_current(chat_id, exists, ffmpeg_ok) ==
    LET key == StrOf(chat_id)
        t == [Request("skip", chat_id, "skip") EXCEPT !.key = key]
    IN /\ IF key \in DOMAIN playlist_queues /\ playlist_queues[key] # <<>>
          THEN IF ~IntOf(chat_id).ok \/ key \notin DOMAIN active_calls
               THEN /\ ReturnsAtOnce(t, "false")
                    /\ UNCHANGED <<active_calls, playlist_queues, lock, pending, transport_call, temp_dir>>
               ELSE handle_stream_end(IntOf(chat_id).n, "skip", exists, ffmpeg_ok)
          ELSE /\ CallStop(Request("stop", chat_id, "skip"))
               /\ UNCHANGED <<active_calls, playlist_queues, temp_dir>>
       /\ UNCHANGED <<joined, streaming>>
       /\ Serving
       /\ UNCHANGED <<shutdown, pytgcalls_clients>>

\* A waiting call gets the lock.
Pending_enter(exists, ffmpeg_ok) ==
    /\ cur.op = "none"
    /\ ~lock
    /\ pending # <<>>
    /\ pending' = Tail(pending)
    /\ IF Head(pending).op = "stop"
       THEN /\ Enter(Head(pending), "change_stream", "s_wait")
            /\ UNCHANGED temp_dir
       ELSE PlayEnter(Head(pending), exists, ffmpeg_ok)
    /\ UNCHANGED <<active_calls, playlist_queues, joined, streaming>>
    /\ UNCHANGED <<shutdown, pytgcalls_clients>>

---------------------------------------------------------------------------
\* on_shutdown and cleanup_client

\* list(d.keys()): the keys in the order they were put in, which the
\* registry here does not keep: any order.
KeyLists(d) ==
    {ks \in [1..Cardinality(DOMAIN d) -> DOMAIN d] :
        \A i, j \in 1..Cardinality(DOMAIN d) : ks[i] = ks[j] => i = j}

\* on_shutdown starts: it will leave the voice chat of every registry key.
on_shutdown ==
    /\ Serving
    /\ Idle
    /\ \E ks \in KeyLists(active_calls) : shutdown' = [pc |-> "leave", todo |-> ks]
    /\ UNCHANGED <<active_calls, playlist_queues, lock, cur, pending, joined, streaming,
                   transport_call, pytgcalls_clients, temp_dir>>

\* await voice_manager.leave_voice_chat(chat_id), in the loop of on_shutdown
\* and in the loop of cleanup_client; the result is not looked at.
Sh_leave ==
    /\ shutdown.pc \in {"leave", "cleanup"}
    /\ shutdown.todo # <<>>
    /\ Idle
    /\ LeaveEnter(PyStr(Head(shutdown.todo)), "shutdown")
    /\ shutdown' = [shutdown EXCEPT !.todo = Tail(shutdown.todo)]
    /\ UNCHANGED <<pending, joined, streaming, pytgcalls_clients, temp_dir>>

\* The loop of on_shutdown is through: cleanup_client(phone) for every
\* phone in pytgcalls_clients, which leaves the calls still in the registry.
Sh_cleanup_client ==
    /\ shutdown.pc = "leave"
    /\ shutdown.todo = <<>>
    /\ Idle
    /\ IF Phone \in pytgcalls_clients
       THEN \E ks \in KeyLists(active_calls) : shutdown' = [pc |-> "cleanup", todo |-> ks]
       ELSE shutdown' = [pc |-> "done", todo |-> <<>>]
    /\ UNCHANGED <<active_calls, playlist_queues, lock, cur, pending, joined, streaming,
                   transport_call, pytgcalls_clients, temp_dir>>

\* The loop of cleanup_client is through: pytgcalls.stop(), which ends the
\* transport's calls, and del pytgcalls_clients[phone].
Sh_stop ==
    /\ shutdown.pc = "cleanup"
    /\ shutdown.todo = <<>>
    /\ Idle
    /\ pytgcalls_clients' = pytgcalls_clients \ {Phone}
    /\ joined' = {}
    /\ streaming' = {}
    /\ shutdown' = [pc |-> "done", todo |-> <<>>]
    /\ UNCHANGED <<active_calls, playlist_queues, lock, cur, pending, transport_call, temp_dir>>

---------------------------------------------------------------------------
\* The inputs.

\* The forms joins are made with: a numeric id and a name.  An invite hash is
\* a registry key like the name is, a str that int() rejects.
Forms == {"id", "username"}
\* The chats the operations and events of Next are about.
Chats == {1}
JoinInputs == {extract_chat_id(f, e) : f \in Forms, e \in Chats}
\* The bot passes the registry key of the first session; the methods take
\* an int as well.
OpInputs == {PyStr(JoinKey(c)) : c \in JoinInputs} \cup {PyInt(e) : e \in Chats}
Files == {"a.mp3"}
Volumes == {100}
\* What set_volume is asked for: a value above the transport's range.
SetVolumes == {250}
ResolveOutcomes == {"ok", "init error", "unresolved", "broadcast", "no silence.mp3"}
JoinOutcomes == {"ok", "already joined", "NoActiveGroupCall", "GroupCallNotFound",
                 "TimeoutError", "Exception"}
LeaveOutcomes == {"ok", "NotInGroupCallError", "Exception"}

Next ==
    \/ Return
    \/ \E c \in JoinInputs : J_enter(c)
    \/ \E o \in ResolveOutcomes : J_resolve(o)
    \/ \E o \in JoinOutcomes, can_create \in BOOLEAN : J_join_result(o, can_create)
    \/ J_sleep
    \/ \E ok \in BOOLEAN : J_create(ok)
    \/ \E ok \in BOOLEAN : J_join_extra_result(ok)
    \/ \E ok \in BOOLEAN : J_get_me(ok)
    \/ J_cancel
    \/ \E c \in OpInputs : L_enter(c)
    \/ \E o \in LeaveOutcomes : L_result(o)
    \/ \E c \in OpInputs, f \in Files, v \in Volumes, x \in BOOLEAN, k \in BOOLEAN :
          Pl_enter(c, f, v, x, k)
    \/ \E ok \in BOOLEAN : Pl_result(ok)
    \/ \E c \in OpInputs : S_enter(c)
    \/ \E ok \in BOOLEAN : S_result(ok)
    \/ \E c \in OpInputs : Pa_enter(c)
    \/ \E ok \in BOOLEAN : Pa_result(ok)
    \/ \E c \in OpInputs : R_enter(c)
    \/ \E ok \in BOOLEAN : R_result(ok)
    \/ \E c \in OpInputs, v \in SetVolumes : V_enter(c, v)
    \/ \E ok \in BOOLEAN : V_result(ok)
    \/ \E c \in OpInputs, f \in Files, v \in Volumes, x \in BOOLEAN : add_to_queue(c, f, v, x)
    \/ \E c \in OpInputs, x \in BOOLEAN, k \in BOOLEAN : skip_current(c, x, k)
    \/ \E e \in Chats : on_kicked(e)
    \/ \E e \in Chats : on_closed(e)
    \/ \E e \in Chats, x \in BOOLEAN, k \in BOOLEAN : on_stream_end(e, x, k)
    \/ \E x \in BOOLEAN, k \in BOOLEAN : Pending_enter(x, k)
    \/ on_shutdown
    \/ Sh_leave
    \/ Sh_cleanup_client
    \/ Sh_stop

Spec == Init /\ [][Next]_vars

---------------------------------------------------------------------------
\* The lock over time.  What an operation awaits inside its critical section
\* returns or raises in the end; the caller of an operation that has returned
\* goes on; and asyncio.Lock wakes the coroutines waiting in `async with`
\* in turn.

AwaitReturns ==
    \/ \E o \in ResolveOutcomes : J_resolve(o)
    \/ \E o \in JoinOutcomes, can_create \in BOOLEAN : J_join_result(o, can_create)
    \/ J_sleep
    \/ \E ok \in BOOLEAN : J_create(ok)
    \/ \E ok \in BOOLEAN : J_join_extra_result(ok)
    \/ \E ok \in BOOLEAN : J_get_me(ok)
    \/ \E o \in LeaveOutcomes : L_result(o)
    \/ \E ok \in BOOLEAN : Pl_result(ok)
    \/ \E ok \in BOOLEAN : S_result(ok)
    \/ \E ok \in BOOLEAN : Pa_result(ok)
    \/ \E ok \in BOOLEAN : R_result(ok)
    \/ \E ok \in BOOLEAN : V_result(ok)

LockAcquired == \E x \in BOOLEAN, k \in BOOLEAN : Pending_enter(x, k)

\* The lock is one for all chats and all forms of chat id, and no operation
\* looks at the chat id before it takes the lock: the operations are called
\* here with the numeric id of the chat.
LiveJoinInputs == {extract_chat_id("id", e) : e \in Chats}
LiveOpInputs == {PyStr(JoinKey(c)) : c \in LiveJoinInputs}

LiveNext ==
    \/ Return
    \/ AwaitReturns
    \/ LockAcquired
    \/ J_cancel
    \/ \E c \in LiveJoinInputs : J_enter(c)
    \/ \E c \in LiveOpInputs : L_enter(c)
    \/ \E c \in LiveOpInputs, f \in Files, v \in Volumes, x \in BOOLEAN, k \in BOOLEAN :
          Pl_enter(c, f, v, x, k)
    \/ \E c \in LiveOpInputs : S_enter(c)
    \/ \E c \in LiveOpInputs : Pa_enter(c)
    \/ \E c \in LiveOpInputs : R_enter(c)
    \/ \E c \in LiveOpInputs, v \in SetVolumes : V_enter(c, v)
    \/ \E c \in LiveOpInputs, f \in Files, v \in Volumes, x \in BOOLEAN : add_to_queue(c, f, v, x)
    \/ \E c \in LiveOpInputs, x \in BOOLEAN, k \in BOOLEAN : skip_current(c, x, k)
    \/ \E e \in Chats : on_kicked(e)
    \/ \E e \in Chats : on_closed(e)
    \/ \E e \in Chats, x \in BOOLEAN, k \in BOOLEAN : on_stream_end(e, x, k)
    \/ on_shutdown
    \/ Sh_leave
    \/ Sh_cleanup_client
    \/ Sh_stop

LiveSpec ==
    /\ Init
    /\ [][LiveNext]_vars
    /\ WF_vars(AwaitReturns)
    /\ WF_vars(Return)
    /\ SF_vars(LockAcquired)

---------------------------------------------------------------------------
\* Two chats.  The registry is keyed by str() of what the caller typed, the
\* events by str() of the transport's chat id.
\*
\* The ids are written 1 and 2 here; Telegram's have ten digits or more.
\* extract_chat_id hands the invite part of a link "t.me/+<part>" over as a
\* str when it has ten characters or more of [a-zA-Z0-9_-], digits alone
\* included, and join_voice_chat takes such a str for an invite hash.
HashLike(v) ==
    /\ v.t = "str"
    /\ v.s \in {"HashAlpha01", "HashGamma02"} \cup {d[2] : d \in Decimal}

\* The invite cannot be imported (it is none), and the fallback takes the
\* most recent group of the account's dialogs, e, whatever the hash was.
J_resolve_dialogs(e) ==
    /\ cur.pc = "j_resolve"
    /\ HashLike(cur.chat_id)
    /\ JoinAttempt([cur EXCEPT !.chat_id_int = e], 0)
    /\ pytgcalls_clients' = pytgcalls_clients \cup {Phone}
    /\ UNCHANGED <<active_calls, playlist_queues, lock, pending, joined, streaming>>
    /\ UNCHANGED <<shutdown, temp_dir>>

\* Chat 2 by its name, and a link whose invite part is the digits of chat
\* 2's id, which the fallback resolves to chat 1 or to chat 2.
TwoChatJoinInputs == {PyStr("@gamma"), PyStr("2")}
TwoChatOpInputs == {PyStr(JoinKey(c)) : c \in TwoChatJoinInputs}

TwoChatNext ==
    \/ Return
    \/ \E c \in TwoChatJoinInputs : J_enter(c)
    \/ \E o \in ResolveOutcomes : J_resolve(o)
    \/ \E e \in EntityIds : J_resolve_dialogs(e)
    \/ \E o \in JoinOutcomes, can_create \in BOOLEAN : J_join_result(o, can_create)
    \/ J_sleep
    \/ \E ok \in BOOLEAN : J_create(ok)
    \/ \E ok \in BOOLEAN : J_join_extra_result(ok)
    \/ \E ok \in BOOLEAN : J_get_me(ok)
    \/ \E c \in TwoChatOpInputs : L_enter(c)
    \/ \E o \in LeaveOutcomes : L_result(o)
    \/ \E c \in TwoChatOpInputs, f \in Files, v \in Volumes, x \in BOOLEAN, k \in BOOLEAN :
          Pl_enter(c, f, v, x, k)
    \/ \E ok \in BOOLEAN : Pl_result(ok)
    \/ \E c \in TwoChatOpInputs, f \in Files, v \in Volumes, x \in BOOLEAN :
          add_to_queue(c, f, v, x)
    \/ \E e \in EntityIds : on_kicked(e)
    \/ \E e \in EntityIds : on_closed(e)
    \/ \E e \in EntityIds, x \in BOOLEAN, k \in BOOLEAN : on_stream_end(e, x, k)
    \/ LockAcquired

TwoChatSpec == Init /\ [][TwoChatNext]_vars

---------------------------------------------------------------------------
\* The volume a percentage becomes, on its own: the percentages the
\* configuration allows, and the value set_volume hands to the transport
\* for each.  change_volume_call takes the volume in percent of the
\* stream's own loudness, so 100 is gain 1.0.

\* MAX_VOLUME = min(300, max(1, int(os.getenv('MAX_VOLUME', '200'))))
MAX_VOLUME(env) == Min(300, Max(1, env))

\* VoiceSettings.__post_init__: self.volume = max(1, min(MAX_VOLUME, self.volume))
VoiceSettingsVolume(volume, max_volume) == Max(1, Min(max_volume, volume))

MaxVolumeEnvs == {0, 150, 200, 300, 400}
MaxPercent == 320
Percents == 0..MaxPercent

VolumeTask(pc, env, percent, volume, applied) ==
    [op |-> "volume", pc |-> pc, env |-> env, percent |-> percent,
     volume |-> volume, pytgcalls_volume |-> applied]

VolumeInit ==
    /\ active_calls = EmptyMap
    /\ playlist_queues = EmptyMap
    /\ lock = FALSE
    /\ \E env \in MaxVolumeEnvs, percent \in Percents :
          cur = VolumeTask("asked", env, percent, 0, 0)
    /\ pending = <<>>
    /\ joined = {}
    /\ streaming = {}
    /\ transport_call = NoCall
    /\ pytgcalls_clients = {}
    /\ shutdown = NotShutDown
    /\ temp_dir = {}

\* The settings take the percentage asked for.
Vol_post_init ==
    /\ cur.pc = "asked"
    /\ cur' = [cur EXCEPT !.pc = "configured",
                          !.volume = VoiceSettingsVolume(cur.percent, MAX_VOLUME(cur.env))]
    /\ UNCHANGED <<active_calls, playlist_queues, lock, pending, joined, streaming,
                   transport_call, pytgcalls_clients, shutdown, temp_dir>>

\* set_volume with the settings' volume: what the transport is given.
Vol_set_volume ==
    /\ cur.pc = "configured"
    /\ cur' = [cur EXCEPT !.pc = "applied",
                          !.pytgcalls_volume = PyTgCallsVolume(cur.volume)]
    /\ UNCHANGED <<active_calls, playlist_queues, lock, pending, joined, streaming,
                   transport_call, pytgcalls_clients, shutdown, temp_dir>>

VolumeNext == Vol_post_init \/ Vol_set_volume

VolumeSpec == VolumeInit /\ [][VolumeNext]_vars

---------------------------------------------------------------------------
\* The registry entry and the queue of one key, "absent" for none.

SessionAt(calls, key) == IF key \in DOMAIN calls THEN <<calls[key]>> ELSE <<>>
QueueAt(queues, key) == IF key \in DOMAIN queues THEN <<queues[key]>> ELSE <<>>

\* An operation op is called in this step.
Called(op) == cur.op = "none" /\ cur'.op = op
\* An operation op returns in this step.
Returns(op) == cur.pc # "done" /\ cur'.pc = "done" /\ cur'.op = op

---------------------------------------------------------------------------
\* C1: join called with a chat id whose registry key already has a session
\* returns True at once: it makes no transport call, and the registry, the
\* queues and the transport's calls stay as the first join left them.
C1_JoinAgainIsIdempotent ==
    [][(Called("join") /\ JoinKey(cur'.chat_id) \in DOMAIN active_calls)
         => /\ cur'.pc = "done"
            /\ cur'.ret = "true"
            /\ ~lock'
            /\ transport_call' = NoCall
            /\ UNCHANGED <<active_calls, playlist_queues, joined, streaming>>]_vars

\* A second join on a registered key has returned True.
C1_Witness ==
    /\ cur.op = "join"
    /\ cur.pc = "done"
    /\ cur.ret = "true"
    /\ cur.branch = "already in voice chat"
    /\ cur.key \in DOMAIN active_calls

\* C2: no two registry entries have the same entity_id.
C2_OneSessionPerChat ==
    \A k1, k2 \in DOMAIN active_calls :
        active_calls[k1].entity_id = active_calls[k2].entity_id => k1 = k2

\* C3: leave for a chat id with no session returns False at once, makes no
\* transport call and leaves the registry, the queues and the transport's
\* calls as they were.
C3_LeaveWithoutSession ==
    [][(Called("leave") /\ StrOf(cur'.chat_id) \notin DOMAIN active_calls)
         => /\ cur'.pc = "done"
            /\ cur'.ret = "false"
            /\ ~lock'
            /\ transport_call' = NoCall
            /\ UNCHANGED <<active_calls, playlist_queues, joined, streaming>>]_vars

\* leave has returned False for a chat id with no session, while another
\* chat id has one.
C3_Witness ==
    /\ cur.op = "leave"
    /\ cur.pc = "done"
    /\ cur.ret = "false"
    /\ StrOf(cur.chat_id) \notin DOMAIN active_calls
    /\ active_calls # EmptyMap

\* C4: leave called with the registry key of a session returns True, and
\* then neither the session nor its queue is in the registry.
C4_LeaveByKeyRemoves ==
    [][(Returns("leave") /\ cur'.chat_id.t = "str"
          /\ StrOf(cur'.chat_id) \in DOMAIN active_calls)
         => /\ cur'.ret = "true"
            /\ StrOf(cur'.chat_id) \notin DOMAIN active_calls'
            /\ StrOf(cur'.chat_id) \notin DOMAIN playlist_queues']_vars

\* C5: a join that returns False has recorded nothing: while it runs and
\* when it returns there is no session under its key, and none of its steps
\* but the one that returns True changes the registry or the queues.
C5_FailedJoinRecordsNothing ==
    [][(cur'.op = "join" /\ cur' # cur /\ ~(cur'.pc = "done" /\ cur'.ret = "true"))
         => /\ cur'.key \notin DOMAIN active_calls'
            /\ UNCHANGED <<active_calls, playlist_queues>>]_vars

\* A join has returned False after the transport had joined the call.
C5_Witness ==
    /\ cur.op = "join"
    /\ cur.pc = "done"
    /\ cur.ret = "false"
    /\ Resolve(cur.chat_id) \in joined
    /\ \A k \in DOMAIN active_calls : active_calls[k].entity_id # Resolve(cur.chat_id)

\* C6: when no operation is in flight, a chat has a session in the registry
\* if and only if the transport is in that chat's call.
C6_SessionIffInCall ==
    (cur.op = "none" /\ pending = <<>>)
        => \A e \in Chats :
             (e \in joined) <=> (\E k \in DOMAIN active_calls : active_calls[k].entity_id = e)

\* C7: every join_group_call that join_voice_chat awaits is awaited under a
\* timeout.
C7_EveryJoinCallTimed ==
    (cur.op = "join" /\ transport_call.fn = "join_group_call") => cur.wait_for > 0

\* C8: while an operation is suspended inside its critical section, no
\* other handler changes the session or the queue of the chat it works on.
C8_LockOrdersChatMutations ==
    [][(lock /\ cur' = cur)
         => /\ SessionAt(active_calls', cur.key) = SessionAt(active_calls, cur.key)
            /\ QueueAt(playlist_queues', cur.key) = QueueAt(playlist_queues, cur.key)]_vars

\* C9: pause on a session that is not playing returns False at once and
\* makes no transport call.
C9_PauseWhenNotPlaying ==
    [][(Called("pause") /\ StrOf(cur'.chat_id) \in DOMAIN active_calls
          /\ ~active_calls[StrOf(cur'.chat_id)].playing)
         => /\ cur'.pc = "done"
            /\ cur'.ret = "false"
            /\ transport_call' = NoCall]_vars

\* C10: resume on a session with nothing playing (no current media file)
\* returns False and leaves the session as it was.
C10_ResumeWithNothingPlaying ==
    [][(Returns("resume") /\ cur.key \in DOMAIN active_calls
          /\ active_calls[cur.key].file = NoFile)
         => /\ cur'.ret = "false"
            /\ active_calls' = active_calls]_vars

\* C11: set_volume on a session that is not playing a media file returns
\* False and leaves the session, its recorded volume included, as it was.
C11_SetVolumeWhenNotPlaying ==
    [][(Returns("set_volume") /\ cur.key \in DOMAIN active_calls
          /\ ~(active_calls[cur.key].playing /\ active_calls[cur.key].file # NoFile))
         => /\ cur'.ret = "false"
            /\ active_calls' = active_calls]_vars

\* C12: when the conversion step of play fails (the stream would be the
\* input file itself), the transport is not asked to change the stream, play
\* returns False, and the session is as it was before the call.
C12_FailedConversionPlaysNothing ==
    [][/\ (cur' # cur /\ cur'.op = "play" /\ cur'.pc = "pl_wait" /\ cur'.stream = cur'.file)
            => transport_call'.fn # "change_stream"
       /\ (cur.op = "play" /\ cur.pc = "pl_wait" /\ cur.stream = cur.file /\ cur'.pc = "done")
            => /\ cur'.ret = "false"
               /\ active_calls' = active_calls]_vars

\* The stream of chat e's call ends in this step.
StreamEnded(e) == e \in streaming /\ e \notin streaming' /\ e \in joined'

\* play_media is called in this step by the stream-end handler for item.
PlayCalledFor(item) ==
    \/ /\ cur' # cur
       /\ cur'.op = "play"
       /\ cur'.origin = "stream_end"
       /\ cur'.pc = "pl_wait" => cur'.file = item.file
    \/ /\ pending' # pending
       /\ pending' = Append(pending, pending'[Len(pending')])
       /\ pending'[Len(pending')].file = item.file

\* C13: when the stream of a session's chat ends, the oldest queued item of
\* that session is taken off its queue and played, the others keeping their
\* order; when the queue is empty the session stays registered, not playing,
\* with an empty queue.
C13_QueuePlayedInOrder ==
    [][\A k \in DOMAIN active_calls :
          (StreamEnded(active_calls[k].entity_id) /\ k \in DOMAIN playlist_queues)
            => IF playlist_queues[k] # <<>>
               THEN /\ k \in DOMAIN playlist_queues'
                    /\ playlist_queues'[k] = Tail(playlist_queues[k])
                    /\ PlayCalledFor(Head(playlist_queues[k]))
               ELSE /\ k \in DOMAIN active_calls'
                    /\ ~active_calls'[k].playing
                    /\ playlist_queues'[k] = <<>>]_vars

\* C14: a queue holds items only for a session that is playing or paused
\* (not playing, with its media file still recorded).
C14_QueueOnlyWhilePlayingOrPaused ==
    \A k \in DOMAIN playlist_queues :
        playlist_queues[k] # <<>>
          => /\ k \in DOMAIN active_calls
             /\ active_calls[k].playing \/ active_calls[k].file # NoFile

\* C15: whatever an operation ends in on its own account is True or False:
\* it neither raises nor returns None.  (A join the caller cancels through
\* its own wait_for is ended by the caller.)
C15_OperationsReturnBool ==
    (cur.pc = "done" /\ cur.ret # "cancelled") => cur.ret \in {"true", "false"}

\* skip_current has returned False from its except: items were queued, and
\* int(chat_id) or the lookup of the session raised.
C15_Witness ==
    /\ cur.op = "skip"
    /\ cur.pc = "done"
    /\ cur.ret = "false"
    /\ cur.key \in DOMAIN playlist_queues
    /\ playlist_queues[cur.key] # <<>>

\* C16: play, stop, pause, resume, set_volume, add_to_queue or skip_current
\* called (not one that had waited for the lock) for a chat id with no
\* session returns False at once and leaves the registry and every queue as
\* they were.
C16_NoSessionNoEffect ==
    [][(/\ cur.op = "none"
        /\ cur'.op \in {"play", "stop", "pause", "resume", "set_volume", "enqueue", "skip"}
        /\ cur'.origin # "stream_end"
        /\ pending' = pending
        /\ StrOf(cur'.chat_id) \notin DOMAIN active_calls)
         => /\ cur'.pc = "done"
            /\ cur'.ret = "false"
            /\ UNCHANGED <<active_calls, playlist_queues>>]_vars

\* C17: when stop_media returns True the session is still registered, is
\* not playing, has no media file recorded, and its queue holds no item.
C17_StopLeavesIdleSession ==
    [][(cur.op = "stop" /\ cur.pc = "s_wait" /\ cur'.pc = "done" /\ cur'.ret = "true")
         => /\ cur.key \in DOMAIN active_calls'
            /\ ~active_calls'[cur.key].playing
            /\ active_calls'[cur.key].file = NoFile
            /\ QueueAt(playlist_queues', cur.key) \in {<<>>, << <<>> >>}]_vars

\* stop_media has returned True for a session that had been in use (its
\* volume is recorded), and the session is idle with an empty queue.
C17_Witness ==
    /\ cur.op = "stop"
    /\ cur.pc = "done"
    /\ cur.ret = "true"
    /\ cur.key \in DOMAIN active_calls
    /\ ~active_calls[cur.key].playing
    /\ active_calls[cur.key].volume # 0
    /\ QueueAt(playlist_queues, cur.key) = << <<>> >>

\* C18: a pause_media of a playing session that returns True records the
\* position playback had reached: the session gets an entry besides the playing flag that it had
\* not, or one of its other entries changes.
C18_PauseRecordsPosition ==
    [][(/\ cur.op = "pause" /\ cur.pc = "pa_wait" /\ cur'.pc = "done" /\ cur'.ret = "true"
        /\ active_calls[cur.key].playing
        /\ active_calls[cur.key].file # NoFile)
         => \E f \in DOMAIN active_calls'[cur.key] \ {"playing"} :
               \/ f \notin DOMAIN active_calls[cur.key]
               \/ active_calls'[cur.key][f] # active_calls[cur.key][f]]_vars

\* The transport is put out of chat e's call (kicked, or the voice chat was
\* closed) in this step: no leave_group_call was awaited.
PutOut(e) == e \in joined /\ e \notin joined' /\ cur.pc # "l_wait"

\* C19: when the account is put out of the call of a chat that has a
\* session, a rejoin is started: a join_group_call for the chat is awaited
\* or a join is under way after the step.
C19_KickStartsRejoin ==
    [][\A e \in Chats :
          (PutOut(e) /\ \E k \in DOMAIN active_calls : active_calls[k].entity_id = e)
            => \/ transport_call' = Call("join_group_call", e)
               \/ cur'.op = "join" /\ cur'.pc # "done"]_vars

\* C20: once on_shutdown is through, the registry holds no session and no
\* queue, and no PyTgCalls client is registered.
C20_ShutdownLeavesNothing ==
    shutdown.pc = "done"
        => /\ active_calls = EmptyMap
           /\ playlist_queues = EmptyMap
           /\ pytgcalls_clients = {}

\* C21: the volume handed to the transport for a percentage within the
\* configured bounds is at least the one of every smaller percentage within
\* them (non-decreasing), and 100% is handed over as 100, which is gain 1.0.
C21_GainIsMonotoneAndUnitAt100 ==
    (cur.op = "volume" /\ cur.pc = "applied")
        => /\ cur.volume \in 1..MAX_VOLUME(cur.env)
           /\ \A q \in 1..cur.volume : PyTgCallsVolume(q) <= cur.pytgcalls_volume
           /\ cur.volume = 100 => cur.pytgcalls_volume = 100

C21_Witness ==
    /\ cur.op = "volume" /\ cur.pc = "applied"
    /\ cur.env = 300 /\ cur.percent = 100 /\ cur.pytgcalls_volume = 100

\* C22: while an operation awaits a transport call (join, leave, change of
\* stream, pause, resume), the lock is free, so that an operation on another
\* chat can take it and run to its end.
C22_LockFreeDuringTransportCall ==
    transport_call.fn \in {"join_group_call", "leave_group_call", "change_stream",
                           "pause_stream", "resume_stream"}
        => ~lock

\* C23: when the play_media that _handle_stream_end awaits for the item it
\* popped from a session's queue returns False and nothing streams in the
\* call, the handler does not end there with items left in the queue: it
\* goes on to the next item, so that at its end the queue is empty.
C23_FailedItemIsFollowedByTheNext ==
    [][(/\ Returns("play")
        /\ cur'.origin = "stream_end"
        /\ cur'.ret = "false"
        /\ cur'.key \in DOMAIN active_calls'
        /\ cur'.chat_id.n \notin streaming')
         => QueueAt(playlist_queues', cur'.key) \in {<<>>, << <<>> >>}]_vars

\* C24: when the account is put out of the call of a chat (kicked, or the
\* voice chat closed), every session registered for that chat is removed
\* together with its queue, whatever form of identifier it was joined with.
C24_KickRemovesSessionAndQueue ==
    [][\A e \in Chats :
          PutOut(e)
            => \A k \in DOMAIN active_calls :
                  active_calls[k].entity_id = e
                    => /\ k \notin DOMAIN active_calls'
                       /\ k \notin DOMAIN playlist_queues']_vars

\* C25: when the stream of a chat ends, the key the handler derives from
\* the event is the registry key of every session of that chat, so that the
\* queue it pops and the record it updates are that session's own.
C25_StreamEndKeyIsRegistryKey ==
    [][\A e \in Chats :
          StreamEnded(e)
            => \A k \in DOMAIN active_calls :
                  active_calls[k].entity_id = e => k = EventKey(e)]_vars

\* C26: a join_group_call is handed to the transport only as the one
\* attempt of a join the caller issued, right after the chat is resolved:
\* no operation hands over a second one, and play, pause and resume hand
\* over none.
C26_OneTransportJoinPerJoin ==
    [][(transport_call.fn # "join_group_call" /\ transport_call'.fn = "join_group_call")
         => /\ cur'.op = "join"
            /\ cur.pc = "j_resolve"]_vars

\* play_media runs the converter in this step, and the converter writes
\* its output.
Converts ==
    /\ cur'.op = "play" /\ cur'.pc = "pl_wait" /\ cur.pc # "pl_wait"
    /\ cur'.stream = ConvertedPath(cur'.file)

\* C27: the path a conversion writes to is not the path of a file that a
\* session is streaming at that moment.
C27_ConversionSparesStreamedFile ==
    [][Converts
         => \A k \in DOMAIN active_calls :
               (active_calls[k].playing /\ active_calls[k].entity_id \in streaming)
                 => active_calls[k].current_stream # cur'.stream]_vars

\* C28: once every session is gone (by leave, kick, close of the voice chat,
\* or shutdown) and no play is under way or waiting, no converted file made
\* for a session's plays is left in the temporary directory.
C28_NoConvertedFileOutlivesSessions ==
    (active_calls = EmptyMap /\ cur.op # "play" /\ pending = <<>>) => temp_dir = {}

\* C29: when a join of a key that had no session returns True, the registry
\* holds a session for the key that is not playing and has no media file,
\* and the key's queue exists and is empty.
C29_JoinRegistersIdleSession ==
    [][(Returns("join") /\ cur'.ret = "true" /\ cur'.branch # "already in voice chat")
         => /\ cur'.key \in DOMAIN active_calls'
            /\ ~active_calls'[cur'.key].playing
            /\ active_calls'[cur'.key].file = NoFile
            /\ cur'.key \in DOMAIN playlist_queues'
            /\ playlist_queues'[cur'.key] = <<>>]_vars

C29_Witness ==
    /\ cur.op = "join" /\ cur.pc = "done" /\ cur.ret = "true"
    /\ cur.branch \in {"try", "except", "extra"}
    /\ cur.key \in DOMAIN active_calls
    /\ ~active_calls[cur.key].playing
    /\ active_calls[cur.key].file = NoFile
    /\ cur.key \in DOMAIN playlist_queues
    /\ playlist_queues[cur.key] = <<>>

C31_StreamEndOnEmptyQueue ==
    [][\A e \in Chats :
          StreamEnded(e)
            => \A k \in DOMAIN active_calls :
                  (active_calls[k].entity_id = e /\ QueueAt(playlist_queues, k) = << <<>> >>)
                    => /\ k \in DOMAIN active_calls'
                       /\ active_calls'[k] = [active_calls[k] EXCEPT !.playing = FALSE]
                       /\ QueueAt(playlist_queues', k) = << <<>> >>
                       /\ transport_call' = transport_call
                       /\ pending' = pending]_vars

\* C32: when stop_media returns True, no play_media of an item taken off the
\* chat's queue (by the stream-end handler or by skip) is still waiting to
\* run: nothing that was queued is played after the stop.
C32_NothingQueuedPlaysAfterStop ==
    [][(Returns("stop") /\ cur'.ret = "true")
         => \A i \in 1..Len(pending') :
               ~(/\ pending'[i].op = "play"
                 /\ pending'[i].origin \in {"stream_end", "skip"}
                 /\ StrOf(pending'[i].chat_id) = cur.key)]_vars

\* C33: when the transport call awaited by play, stop, pause, resume or
\* set_volume raises, the operation returns False, and the registry and the
\* queues are after the return what they were when the call raised.
C33_TransportRaiseChangesNothing ==
    [][(/\ cur.pc \in {"pl_wait", "s_wait", "pa_wait", "r_wait", "v_wait"}
        /\ cur'.pc = "done"
        /\ cur'.op \in {"play", "stop", "pause", "resume", "set_volume"}
        /\ cur'.branch = "except")
         => /\ cur'.ret = "false"
            /\ active_calls' = active_calls
            /\ playlist_queues' = playlist_queues]_vars

C33_Witness ==
    /\ cur.op = "pause" /\ cur.pc = "done" /\ cur.branch = "except" /\ cur.ret = "false"
    /\ cur.key \in DOMAIN active_calls
    /\ active_calls[cur.key].playing
    /\ active_calls[cur.key].file = "a.mp3"

\* C34: after leave_voice_chat has removed the session of a key and
\* returned True, and before anything else is called by its caller, no
\* handler or enqueue puts a session or a queue back under the key.
C34_RemovedStaysRemoved ==
    [][(cur.op = "leave" /\ cur.pc = "done" /\ cur.ret = "true" /\ cur' = cur)
         => /\ cur.key \notin DOMAIN active_calls'
            /\ cur.key \notin DOMAIN playlist_queues']_vars

\* C35: the lock is never held forever: whenever it is held it is released
\* later, and the line of calls waiting for it never stays as it is: calls
\* join it only at its end, so its head gets the lock later.
C35_LockIsNeverHeldForever ==
    /\ lock ~> ~lock
    /\ \A n \in 1..MaxPending : (Len(pending) = n) ~> (Len(pending) # n)

C35_Witness ==
    /\ lock
    /\ cur.op = "stop" /\ cur.pc = "s_wait"
    /\ pending # <<>>
    /\ Head(pending).op = "play"

\* C36: a session that is marked playing has a media file recorded.
C36_PlayingHasFile ==
    \A k \in DOMAIN active_calls : active_calls[k].playing => active_calls[k].file # NoFile

\* C37: skip_current on a session with items queued returns True only when
\* the item it took off the queue is playing afterwards: the session is
\* marked playing and its call streams.
C37_SkipTrueMeansNextPlays ==
    [][(/\ cur'.op = "skip" /\ cur'.pc = "done" /\ cur'.ret = "true"
        /\ cur.pc \in {"idle", "pl_wait"})
         => /\ cur'.key \in DOMAIN active_calls'
            /\ active_calls'[cur'.key].playing
            /\ active_calls'[cur'.key].entity_id \in streaming']_vars


\* An operation on chat e returns in this step: a join that resolved its
\* argument to e, or another operation whose key is that of a session in the
\* call of e.
OperationOn(e) ==
    /\ cur.pc # "done"
    /\ cur'.pc = "done"
    /\ IF cur'.op = "join"
       THEN cur.chat_id_int = e
       ELSE /\ cur'.key \in DOMAIN active_calls
            /\ active_calls[cur'.key].entity_id = e

\* C38: a step of an operation on chat e, and a kicked, closed or
\* stream-ended event of chat e, leave the session and the queue of every
\* session in the call of another chat as they were.
C38_OtherChatsAreUntouched ==
    [][\A e \in EntityIds :
          (PutOut(e) \/ StreamEnded(e) \/ OperationOn(e))
            => \A k \in DOMAIN active_calls :
                  active_calls[k].entity_id # e
                    => /\ SessionAt(active_calls', k) = SessionAt(active_calls, k)
                       /\ QueueAt(playlist_queues', k) = QueueAt(playlist_queues, k)]_vars

\* C39: when set_volume returns True, the volume recorded in the session is
\* the volume that was passed to change_volume_call, and it lies in 0..200.
C39_RecordedVolumeIsTheAppliedOne ==
    [][(Returns("set_volume") /\ cur'.ret = "true")
         => /\ cur.key \in DOMAIN active_calls'
            /\ active_calls'[cur.key].volume = cur.pytgcalls_volume
            /\ active_calls'[cur.key].volume \in 0..200]_vars

====
